---------------------------- MODULE Spec2Model ----------------------------
(***************************************************************************)
(* Model of main.py, the Seoul commercial-district quarterly dashboard.    *)
(*                                                                         *)
(* The script is a Streamlit page: it runs top to bottom once per pass, a  *)
(* pass is started by the first page view and again by every widget        *)
(* interaction, st.stop() ends a pass early, and an uncaught exception     *)
(* ends it with a traceback.  load_data is memoised by st.cache_data.      *)
(*                                                                         *)
(* TLA+ string literals are ASCII only, so the Korean names of the source  *)
(* are written in Revised Romanization:                                    *)
(*   sanggwon_gubun_kodeu_myeong   = 상권_구분_코드_명                     *)
(*   sanggwon_kodeu                = 상권_코드                             *)
(*   sanggwon_kodeu_myeong         = 상권_코드_명                          *)
(*   seobiseu_eopjong_kodeu_myeong = 서비스_업종_코드_명                   *)
(*   dangwol_maechul_geumaek       = 당월_매출_금액                        *)
(*   dangwol_maechul_geonsu        = 당월_매출_건수                        *)
(*   sanggwonyuhyeong = 상권유형    sanggwonkodeu = 상권코드               *)
(*   sanggwonireum    = 상권이름    eopjong       = 업종                   *)
(*   bungimaechuraek  = 분기매출액  bungigeoraegeonsu = 분기거래건수       *)
(*   gijun_nyeonbungi_kodeu   = 기준_년분기_코드                           *)
(*   namseong_maechul_geumaek = 남성_매출_금액                             *)
(*   yeoseong_maechul_geumaek = 여성_매출_금액                             *)
(*   yeollyeongdae_NN_maechul_geumaek = 연령대_NN_매출_금액                *)
(*   jeonche = 전체   golmoksanggwon = 골목상권   jeontongsijang = 전통시장*)
(*                                                                         *)
(* Library semantics are those of pandas 1.x/2.x, for which the script was *)
(* written: read_csv turns an empty cell into a missing value, a column    *)
(* whose cells are all numerals is read as int64 (float64 if a cell is     *)
(* missing), astype(str) turns a missing value into the text "nan", sum    *)
(* skips missing values, and sort_values (quicksort) orders ties           *)
(* arbitrarily.  A division of 0 by 0 yields NaN and raises nothing.       *)
(*                                                                         *)
(* Amounts are whole numbers.  What the page shows is kept as the values   *)
(* shown: the fmt_ helpers and the eokwon (억원) column only scale and     *)
(* format them.  out holds a tag for every element a pass has rendered.    *)
(***************************************************************************)
EXTENDS Integers, Sequences, FiniteSets, TLC

VARIABLES fileExists, raw, cache, df, widgets, sel, filtered_data, csv_data,
          metrics, top10, gender, age, out, pc

vars == <<fileExists, raw, cache, df, widgets, sel, filtered_data, csv_data,
          metrics, top10, gender, age, out, pc>>

---------------------------------------------------------------------------
(* Bounds of the enumerated inputs.                                        *)

\* rows of a table in the standard layout
MaxRows == 2
\* categories (one row each) of a table of the wide family
MaxWide == 11
\* codes a user picks by hand in one multiselect (besides "everything")
MaxSel == 2

---------------------------------------------------------------------------
(* Program constants.                                                      *)

RENAME_MAP ==
    [ sanggwon_gubun_kodeu_myeong   |-> "sanggwonyuhyeong",
      sanggwon_kodeu                |-> "sanggwonkodeu",
      sanggwon_kodeu_myeong         |-> "sanggwonireum",
      seobiseu_eopjong_kodeu_myeong |-> "eopjong",
      dangwol_maechul_geumaek       |-> "bungimaechuraek",
      dangwol_maechul_geonsu        |-> "bungigeoraegeonsu" ]

REQUIRED_COLS ==
    { "gijun_nyeonbungi_kodeu", "bungimaechuraek", "bungigeoraegeonsu",
      "sanggwonireum", "eopjong", "sanggwonyuhyeong" }

AGE_COLS ==
    << "yeollyeongdae_10_maechul_geumaek", "yeollyeongdae_20_maechul_geumaek",
       "yeollyeongdae_30_maechul_geumaek", "yeollyeongdae_40_maechul_geumaek",
       "yeollyeongdae_50_maechul_geumaek",
       "yeollyeongdae_60_isang_maechul_geumaek" >>

MALE_COL == "namseong_maechul_geumaek"

FEMALE_COL == "yeoseong_maechul_geumaek"

\* num_cols of load_data
num_cols ==
    << "bungimaechuraek", "bungigeoraegeonsu", MALE_COL, FEMALE_COL >> \o AGE_COLS

\* the columns load_data turns into stripped text
str_cols ==
    << "sanggwonyuhyeong", "sanggwonireum", "eopjong", "gijun_nyeonbungi_kodeu" >>

q_all_label == "jeonche"

PREFERRED_TYPES == << "golmoksanggwon", "jeontongsijang" >>

TOP_N == 10

DEFAULT_BIZ_N == 5

---------------------------------------------------------------------------
(* Values.                                                                 *)

\* a missing cell of a text column (read_csv reads the empty cell as NaN)
NA == ""

\* a missing cell of a numeric column (NaN); amounts are never negative
NaN == -1

\* "no value": a variable not assigned in this pass, an empty cache
None == [none |-> TRUE]

Range(s) == { s[i] : i \in DOMAIN s }

Count(x, s) == Cardinality({ i \in DOMAIN s : s[i] = x })

IndexOf(x, s) == CHOOSE i \in DOMAIN s : s[i] = x

Min(a, b) == IF a < b THEN a ELSE b

SelectIdx(s, keep) ==
    LET F[i \in 0..Len(s)] ==
          IF i = 0 THEN << >>
          ELSE IF i \in keep THEN Append(F[i - 1], s[i]) ELSE F[i - 1]
    IN  F[Len(s)]

---------------------------------------------------------------------------
(* Text conversions.                                                       *)

Digits == << "0", "1", "2", "3", "4", "5", "6", "7", "8", "9" >>

IsDigit(c) == c \in Range(Digits)

DigitVal(c) == IndexOf(c, Digits) - 1

IsNumeral(t) == Len(t) > 0 /\ \A i \in 1..Len(t) : IsDigit(SubSeq(t, i, i))

RECURSIVE NumeralVal(_)
NumeralVal(t) ==
    IF Len(t) = 0 THEN 0
    ELSE 10 * NumeralVal(SubSeq(t, 1, Len(t) - 1)) + DigitVal(SubSeq(t, Len(t), Len(t)))

RECURSIVE LStrip(_)
LStrip(t) ==
    IF Len(t) > 0 /\ SubSeq(t, 1, 1) = " " THEN LStrip(SubSeq(t, 2, Len(t))) ELSE t

RECURSIVE RStrip(_)
RStrip(t) ==
    IF Len(t) > 0 /\ SubSeq(t, Len(t), Len(t)) = " "
    THEN RStrip(SubSeq(t, 1, Len(t) - 1)) ELSE t

\* str.strip()
Strip(t) == RStrip(LStrip(t))

\* pd.to_numeric(cell, errors="coerce"): a numeral parses, anything else
\* (missing, free text) is coerced to NaN
to_numeric(t) == IF IsNumeral(t) THEN NumeralVal(t) ELSE NaN

\* read_csv's dtype of a column: numeric when every cell present is a numeral
IsNumericCol(cells) == \A i \in DOMAIN cells : cells[i] = NA \/ IsNumeral(cells[i])

HasNA(cells) == \E i \in DOMAIN cells : cells[i] = NA

\* variant: astype(str) that leaves a missing value missing
MissingTextKept(t) == NA

\* astype(str) of a missing value
MissingText(t) == "nan"

\* astype(str) of one cell of a column read by read_csv: a missing cell is
\* "nan", an int64 cell its numeral, a float64 cell (numeric column with a
\* missing cell) its numeral followed by ".0", an object cell its text
astype_str(t, cells) ==
    IF t = NA THEN MissingText(t)
    ELSE IF IsNumericCol(cells)
         THEN IF HasNA(cells) THEN ToString(NumeralVal(t)) \o ".0"
              ELSE ToString(NumeralVal(t))
         ELSE t

---------------------------------------------------------------------------
(* Tables: cols is the header row, rows the rows, each aligned with cols.  *)

ColCells(t, j) == [ r \in 1..Len(t.rows) |-> t.rows[r][j] ]

HasCol(t, c) == c \in Range(t.cols)

\* df[c] is a Series only when exactly one column is named c
Col(t, c) == ColCells(t, IndexOf(c, t.cols))

Rename(h) == IF h \in DOMAIN RENAME_MAP THEN RENAME_MAP[h] ELSE h

\* df.rename(columns=RENAME_MAP)
rename(t) == [ cols |-> [ j \in 1..Len(t.cols) |-> Rename(t.cols[j]) ],
               rows |-> t.rows ]

\* df[col] = pd.to_numeric(df[col], ...) and df[col].astype(str).str.strip()
\* raise when df[col] is a DataFrame, i.e. when two columns carry the name
load_raises(t) ==
    \E c \in Range(num_cols) \cup Range(str_cols) : Count(c, rename(t).cols) > 1

ConvertCell(name, t, cells) ==
    IF name \in Range(num_cols) THEN to_numeric(t)
    ELSE IF name \in Range(str_cols) THEN Strip(astype_str(t, cells))
    ELSE t

\* load_data on a file that parses and whose conversions do not raise
load_data(t) ==
    LET d == rename(t)
    IN  [ cols |-> d.cols,
          rows |-> [ r \in 1..Len(d.rows) |->
                       [ j \in 1..Len(d.cols) |->
                           ConvertCell(d.cols[j], d.rows[r][j], ColCells(d, j)) ] ] ]

---------------------------------------------------------------------------
(* The enumerated input files.  A file is a header layout and rows; a row  *)
(* of the pool gives the cell text of each kind of column.                 *)

RowPool ==
    { [ q |-> "20231", ty |-> "golmoksanggwon", code |-> "1", nm |-> "A",
        biz |-> "cafe", amt |-> "2", cnt |-> "5", m |-> "1", f |-> "1",
        age |-> "1", note |-> "x" ],
      [ q |-> "20232", ty |-> "jeontongsijang", code |-> "2", nm |-> "B",
        biz |-> " bar", amt |-> "n/a", cnt |-> "", m |-> "0", f |-> "0",
        age |-> "", note |-> "" ],
      [ q |-> "", ty |-> "golmoksanggwon", code |-> "1", nm |-> "A",
        biz |-> "", amt |-> "", cnt |-> "3", m |-> "", f |-> "",
        age |-> "2", note |-> "y" ],
      [ q |-> "20231", ty |-> "baldalsanggwon", code |-> "3", nm |-> "C",
        biz |-> "bar", amt |-> "2", cnt |-> "1", m |-> "0", f |-> "",
        age |-> "0", note |-> "" ] }

\* a layout is a sequence of <<header, kind of column>>
BaseLayout ==
    << << "gijun_nyeonbungi_kodeu", "q" >>,
       << "sanggwon_gubun_kodeu_myeong", "ty" >>,
       << "sanggwon_kodeu", "code" >>,
       << "sanggwon_kodeu_myeong", "nm" >>,
       << "seobiseu_eopjong_kodeu_myeong", "biz" >>,
       << "dangwol_maechul_geumaek", "amt" >>,
       << "dangwol_maechul_geonsu", "cnt" >> >>

GenderLayout == << << MALE_COL, "m" >>, << FEMALE_COL, "f" >> >>

AgeLayout == [ i \in 1..Len(AGE_COLS) |-> << AGE_COLS[i], "age" >> ]

\* the layout of the sample file: the raw government headers, gender columns
StdLayout == BaseLayout \o GenderLayout

\* a file exported by the download button carries the canonical headers
CanonLayout ==
    [ i \in 1..Len(BaseLayout) |-> << Rename(BaseLayout[i][1]), BaseLayout[i][2] >> ]

OtherLayouts ==
    { \* no optional column, one unmapped extra column
      BaseLayout \o << << "bigo", "note" >> >>,
      \* gender and age-bracket columns
      StdLayout \o AgeLayout,
      \* only one of the two gender columns
      BaseLayout \o << << MALE_COL, "m" >> >>,
      \* canonical headers
      CanonLayout \o GenderLayout,
      \* a required column absent: no category column
      SelectIdx(StdLayout, (1..Len(StdLayout)) \ {5}),
      \* a required column absent: no period column
      SelectIdx(StdLayout, (1..Len(StdLayout)) \ {1}),
      \* a raw header next to the canonical name it is renamed to
      StdLayout \o << << "bungimaechuraek", "amt" >> >>,
      StdLayout \o << << "sanggwonkodeu", "code" >> >> }

\* the rows tried under the other layouts: none, or one row of the pool
OtherRows == { << >> } \cup { << r >> : r \in RowPool }

SeqsUpTo(S, n) == UNION { [ 1..k -> S ] : k \in 0..n }

MkTable(layout, rows) ==
    [ cols |-> [ j \in 1..Len(layout) |-> layout[j][1] ],
      rows |-> [ r \in 1..Len(rows) |->
                   [ j \in 1..Len(layout) |-> rows[r][layout[j][2]] ] ] ]

\* category i of the wide family; the names sort in the order of i
CatName(i) == IF i < 10 THEN "c0" \o ToString(i) ELSE "c" \o ToString(i)

\* one row per category, amounts 0, 1, 2, ... except that category `hole`
\* has no amount (so that it ties with the first category at 0)
WideRows(w, hole) ==
    [ i \in 1..w |->
        [ q |-> "20231", ty |-> "golmoksanggwon",
          code |-> "1", nm |-> "A", biz |-> CatName(i),
          amt |-> IF i = hole THEN "" ELSE ToString(i - 1),
          cnt |-> "1", m |-> "1", f |-> ToString(i % 2), age |-> "", note |-> "" ] ]

RawTables ==
    { MkTable(StdLayout, rs) : rs \in SeqsUpTo(RowPool, MaxRows) }
      \cup { MkTable(l, rs) : l \in OtherLayouts, rs \in OtherRows }
      \cup { MkTable(StdLayout, WideRows(MaxWide, 2)) }

---------------------------------------------------------------------------
(* Ordering of text, for sorted(): by code point, over the characters the  *)
(* enumerated inputs use.                                                  *)

Alphabet == " ./0123456789_abcdefghijklmnopqrstuvwxyz"

Ord(c) == CHOOSE i \in 1..Len(Alphabet) : SubSeq(Alphabet, i, i) = c

RECURSIVE StrLess(_, _)
StrLess(a, b) ==
    IF Len(b) = 0 THEN FALSE
    ELSE IF Len(a) = 0 THEN TRUE
    ELSE LET x == Ord(SubSeq(a, 1, 1))
             y == Ord(SubSeq(b, 1, 1))
         IN  IF x # y THEN x < y
             ELSE StrLess(SubSeq(a, 2, Len(a)), SubSeq(b, 2, Len(b)))

RECURSIVE sorted(_)
sorted(S) ==
    IF S = {} THEN << >>
    ELSE LET x == CHOOSE y \in S : \A z \in S \ {y} : StrLess(y, z)
         IN  << x >> \o sorted(S \ {x})

Prefix(s, n) == SubSeq(s, 1, Min(n, Len(s)))

---------------------------------------------------------------------------
(* Series operations.                                                      *)

\* Series.sum(skipna=True), and the default sum of a groupby: missing
\* values are skipped, the sum of nothing is 0
\* variant: sum(skipna=False), one missing value makes the sum missing
SumPropagating(cells) ==
    IF \E i \in DOMAIN cells : cells[i] = NaN THEN NaN
    ELSE LET F[i \in 0..Len(cells)] == IF i = 0 THEN 0 ELSE F[i - 1] + cells[i]
         IN  F[Len(cells)]

RECURSIVE Sum(_)
Sum(cells) ==
    IF Len(cells) = 0 THEN 0
    ELSE (IF Head(cells) = NaN THEN 0 ELSE Head(cells)) + Sum(Tail(cells))

\* dropna().unique() of a text column, as a set
Uniques(cells) == { cells[i] : i \in { k \in DOMAIN cells : cells[k] # NA } }

\* nunique(dropna=True)
nunique(cells) == Cardinality(Uniques(cells))

\* astype(str) of a cell of a column that already holds text
str_of_text(t) == IF t = NA THEN MissingText(t) ELSE t

\* frame[mask]: the rows picked by the mask, in their order
RowsAt(t, keep) == [ cols |-> t.cols, rows |-> SelectIdx(t.rows, keep) ]

Cell(t, row, c) == row[IndexOf(c, t.cols)]

\* variant: the empty check that never fires
IsEmptyNever(t) == FALSE

\* DataFrame.empty
IsEmpty(t) == Len(t.rows) = 0

---------------------------------------------------------------------------
(* groupby("eopjong")["bungimaechuraek"].sum().sort_values(descending)     *)

\* the group keys: groupby drops missing keys
GroupKeys(t) == Uniques(Col(t, "eopjong"))

GroupSum(t, c) ==
    LET g == RowsAt(t, { r \in 1..Len(t.rows) : Cell(t, t.rows[r], "eopjong") = c })
    IN  Sum(Col(g, "bungimaechuraek"))

MaxOf(S) == CHOOSE x \in S : \A y \in S : y <= x

\* The orders sort_values(ascending=False) may produce: the sums never
\* increase, and groups with equal sums come in any order (quicksort is
\* not stable).  Each order is a sequence of <<key, sum>>.
RECURSIVE DescOrdersOf(_, _)
DescOrdersOf(t, keys) ==
    IF keys = {} THEN { << >> }
    ELSE LET top == MaxOf({ GroupSum(t, c) : c \in keys })
         IN  UNION { { << << c, top >> >> \o rest : rest \in DescOrdersOf(t, keys \ {c}) }
                     : c \in { k \in keys : GroupSum(t, k) = top } }

SortedGroups(t) == DescOrdersOf(t, GroupKeys(t))

\* variant: the ranking without .head(n)
TopGroupsUncut(t, n) == SortedGroups(t)

\* .head(n) of each possible order
TopGroups(t, n) == { Prefix(o, n) : o \in SortedGroups(t) }

add_medal(rank) ==
    CASE rank = 1 -> "gold "
      [] rank = 2 -> "silver "
      [] rank = 3 -> "bronze "
      [] OTHER -> ""

\* reset_index, then sunwi (순위) = index + 1 and the label
Ranked(groups) ==
    [ i \in 1..Len(groups) |->
        [ eopjong |-> groups[i][1], bungimaechuraek |-> groups[i][2],
          sunwi |-> i, label |-> add_medal(i) \o groups[i][1] ] ]

---------------------------------------------------------------------------
(* Sidebar options and defaults.                                           *)

q_options(d) == { str_of_text(x) : x \in Uniques(Col(d, "gijun_nyeonbungi_kodeu")) }

type_options(d) == Uniques(Col(d, "sanggwonyuhyeong"))

biz_options(d) == Uniques(Col(d, "eopjong"))

default_types(d) ==
    LET pref == { v \in Range(PREFERRED_TYPES) : v \in type_options(d) }
    IN  IF pref # {} THEN pref ELSE type_options(d)

\* default_biz for one possible top5_overall
default_biz(d, top5) ==
    LET hit == { top5[i][1] : i \in { k \in DOMAIN top5 : top5[k][1] \in biz_options(d) } }
    IN  IF hit # {} THEN hit
        ELSE Range(Prefix(sorted(biz_options(d)), DEFAULT_BIZ_N))

---------------------------------------------------------------------------
(* The filter.                                                             *)

\* variant: without the inner "if selected_quarters", an empty selection
\* filters everything out
PeriodFilteredStrict(sq) == q_all_label \notin sq

\* whether the period filter is applied at all
PeriodFiltered(sq) == (sq = {} \/ q_all_label \notin sq) /\ sq # {}

period_pred(t, row, sq) ==
    PeriodFiltered(sq) => str_of_text(Cell(t, row, "gijun_nyeonbungi_kodeu")) \in sq

\* variant: without "if selected_types", an empty selection keeps nothing
type_pred_strict(t, row, ty) == Cell(t, row, "sanggwonyuhyeong") \in ty

type_pred(t, row, ty) == ty # {} => Cell(t, row, "sanggwonyuhyeong") \in ty

biz_pred(t, row, bz) == bz # {} => Cell(t, row, "eopjong") \in bz

\* filtered_data = df.copy(), then the three masks one after the other
apply_filter(d, s) ==
    LET f1 == RowsAt(d, { r \in 1..Len(d.rows) : period_pred(d, d.rows[r], s.quarters) })
        f2 == RowsAt(f1, { r \in 1..Len(f1.rows) : type_pred(f1, f1.rows[r], s.types) })
    IN  RowsAt(f2, { r \in 1..Len(f2.rows) : biz_pred(f2, f2.rows[r], s.biz) })

\* variant: a cache that hands out the cached object itself, filtered in place
CacheAfterFilterAliased(cached, result) == result

\* st.cache_data hands out a copy and the filter works on df.copy(): what
\* the cache holds after the filter has produced `result`
CacheAfterFilter(cached, result) == cached

---------------------------------------------------------------------------
(* Export and aggregation.                                                 *)

HasNaN(cells) == \E i \in DOMAIN cells : cells[i] = NaN

FloatText(n) == ToString(n) \o ".0"

\* one cell as to_csv writes it; dcells is the cell's whole column in df,
\* which fixes the column's dtype
CsvCell(name, v, dcells) ==
    IF name \in Range(num_cols)
    THEN IF v = NaN THEN ""
         ELSE IF HasNaN(dcells) THEN FloatText(v) ELSE ToString(v)
    ELSE IF name \in Range(str_cols) THEN v
    ELSE IF v = NA THEN ""
    ELSE IF IsNumericCol(dcells)
         THEN IF HasNA(dcells) THEN FloatText(NumeralVal(v)) ELSE ToString(NumeralVal(v))
         ELSE v

\* filtered_data.to_csv(index=False)
to_csv(f, d) ==
    [ cols |-> f.cols,
      rows |-> [ r \in 1..Len(f.rows) |->
                   [ j \in 1..Len(f.cols) |->
                       CsvCell(f.cols[j], f.rows[r][j], ColCells(d, j)) ] ] ]

total_sales(f) == Sum(Col(f, "bungimaechuraek"))

total_cnt(f) == Sum(Col(f, "bungigeoraegeonsu"))

n_areas(f) == nunique(Col(f, "sanggwonireum"))

n_cats(f) == nunique(Col(f, "eopjong"))

\* float division: den = 0 stands for 0/0, which pandas evaluates to NaN
Divide(n, d) == [ num |-> n, den |-> d ]

GenderAvailable(f) == HasCol(f, MALE_COL) /\ HasCol(f, FEMALE_COL)

\* gender_df: the two sums and biyul (비율) = sum / (sum of the two sums)
gender_df(f) ==
    LET ms == Sum(Col(f, MALE_COL))
        fs == Sum(Col(f, FEMALE_COL))
    IN  [ namseong |-> [ maechuraek |-> ms, biyul |-> Divide(ms, ms + fs) ],
          yeoseong |-> [ maechuraek |-> fs, biyul |-> Divide(fs, ms + fs) ] ]

age_available(f) == SelectIdx(AGE_COLS, { i \in DOMAIN AGE_COLS : HasCol(f, AGE_COLS[i]) })

age_df(f) ==
    LET av == age_available(f)
    IN  [ i \in 1..Len(av) |-> [ yeollyeongdae |-> av[i], maechuraek |-> Sum(Col(f, av[i])) ] ]

\* variant: the required-column check that finds nothing missing
MissingNothing(d) == {}

\* missing = [c for c in REQUIRED_COLS if c not in df.columns]
Missing(d) == { c \in REQUIRED_COLS : ~HasCol(d, c) }

---------------------------------------------------------------------------
(* The script, one action per block.                                       *)

Init ==
    /\ fileExists \in BOOLEAN
    /\ raw \in IF fileExists THEN RawTables ELSE { None }
    /\ cache = None
    /\ df = None
    /\ widgets = None
    /\ sel = None
    /\ filtered_data = None
    /\ csv_data = None
    /\ metrics = None
    /\ top10 = None
    /\ gender = None
    /\ age = None
    /\ out = {}
    /\ pc = "start"

\* lines 59-64: the title, then the check that the file exists
CheckFile ==
    /\ pc = "start"
    /\ IF fileExists
       THEN /\ out' = out \cup { "title" }
            /\ pc' = "load"
       ELSE /\ out' = out \cup { "title", "error_file" }
            /\ pc' = "stopped"
    /\ UNCHANGED <<fileExists, raw, cache, df, widgets, sel, filtered_data,
                   csv_data, metrics, top10, gender, age>>

\* line 66: load_data through st.cache_data
Load ==
    /\ pc = "load"
    /\ IF cache # None
       THEN /\ df' = cache
            /\ pc' = "cols"
            /\ UNCHANGED <<cache, out>>
       ELSE IF load_raises(raw)
            THEN /\ pc' = "crashed"
                 /\ out' = out \cup { "exception" }
                 /\ UNCHANGED <<cache, df>>
            ELSE /\ cache' = load_data(raw)
                 /\ df' = load_data(raw)
                 /\ pc' = "cols"
                 /\ UNCHANGED out
    /\ UNCHANGED <<fileExists, raw, widgets, sel, filtered_data, csv_data,
                   metrics, top10, gender, age>>

\* lines 69-72: the required columns
CheckCols ==
    /\ pc = "cols"
    /\ IF Missing(df) # {}
       THEN /\ out' = out \cup { "error_cols" }
            /\ pc' = "stopped"
       ELSE /\ pc' = "sidebar"
            /\ UNCHANGED out
    /\ UNCHANGED <<fileExists, raw, cache, df, widgets, sel, filtered_data,
                   csv_data, metrics, top10, gender, age>>

\* the columns the sidebar and the filter index
Indexed(d) ==
    /\ HasCol(d, "gijun_nyeonbungi_kodeu")
    /\ HasCol(d, "sanggwonyuhyeong")
    /\ HasCol(d, "eopjong")
    /\ HasCol(d, "bungimaechuraek")

\* lines 75-113: the three multiselects; a widget takes its default the
\* first time it is built and keeps the user's selection afterwards
Sidebar ==
    /\ pc = "sidebar"
    /\ IF ~Indexed(df)
       THEN /\ pc' = "crashed"
            /\ out' = out \cup { "exception" }
            /\ UNCHANGED <<widgets, sel>>
       ELSE /\ pc' = "filter"
            /\ out' = out \cup { "filters" }
            /\ widgets' = [ q_options |-> q_options(df),
                            type_options |-> type_options(df),
                            biz_options |-> biz_options(df) ]
            /\ IF sel # None
               THEN UNCHANGED sel
               ELSE \E top5 \in TopGroups(df, DEFAULT_BIZ_N) :
                      sel' = [ quarters |-> { q_all_label },
                               types |-> default_types(df),
                               biz |-> default_biz(df, top5) ]
    /\ UNCHANGED <<fileExists, raw, cache, df, filtered_data, csv_data,
                   metrics, top10, gender, age>>

\* lines 116-126
ApplyFilter ==
    /\ pc = "filter"
    /\ filtered_data' = apply_filter(df, sel)
    /\ cache' = CacheAfterFilter(cache, filtered_data')
    /\ pc' = "export"
    /\ UNCHANGED <<fileExists, raw, df, widgets, sel, csv_data, metrics, top10,
                   gender, age, out>>

\* lines 129-144: the row count, the download button, the source note
Export ==
    /\ pc = "export"
    /\ csv_data' = to_csv(filtered_data, df)
    /\ out' = out \cup { "row_count", "download", "source_note" }
    /\ pc' = "emptycheck"
    /\ UNCHANGED <<fileExists, raw, cache, df, widgets, sel, filtered_data,
                   metrics, top10, gender, age>>

\* lines 146-148
EmptyCheck ==
    /\ pc = "emptycheck"
    /\ IF IsEmpty(filtered_data)
       THEN /\ out' = out \cup { "warning_empty" }
            /\ pc' = "stopped"
       ELSE /\ pc' = "tab1"
            /\ UNCHANGED out
    /\ UNCHANGED <<fileExists, raw, cache, df, widgets, sel, filtered_data,
                   csv_data, metrics, top10, gender, age>>

\* lines 151-201: the four metrics and the top-10 chart
Tab1 ==
    /\ pc = "tab1"
    /\ metrics' = [ total_sales |-> total_sales(filtered_data),
                    total_cnt |-> total_cnt(filtered_data),
                    n_areas |-> n_areas(filtered_data),
                    n_cats |-> n_cats(filtered_data) ]
    /\ \E groups \in TopGroups(filtered_data, TOP_N) : top10' = [ rows |-> Ranked(groups) ]
    /\ out' = out \cup { "tabs", "metrics", "top10_chart" }
    /\ pc' = "tab2"
    /\ UNCHANGED <<fileExists, raw, cache, df, widgets, sel, filtered_data,
                   csv_data, gender, age>>

\* lines 204-246: the gender pie and the age-bracket bars, or a notice
Tab2 ==
    /\ pc = "tab2"
    /\ gender' = IF GenderAvailable(filtered_data) THEN gender_df(filtered_data) ELSE None
    /\ age' = IF Len(age_available(filtered_data)) > 0 THEN [ rows |-> age_df(filtered_data) ] ELSE None
    /\ out' = out
              \cup (IF GenderAvailable(filtered_data) THEN { "gender_chart" } ELSE { "gender_info" })
              \cup (IF Len(age_available(filtered_data)) > 0 THEN { "age_chart" } ELSE { "age_info" })
    /\ pc' = "footer"
    /\ UNCHANGED <<fileExists, raw, cache, df, widgets, sel, filtered_data,
                   csv_data, metrics, top10>>

\* lines 249-250
Footer ==
    /\ pc = "footer"
    /\ out' = out \cup { "footer" }
    /\ pc' = "done"
    /\ UNCHANGED <<fileExists, raw, cache, df, widgets, sel, filtered_data,
                   csv_data, metrics, top10, gender, age>>

\* what a user may pick in a multiselect over opts
Choices(opts) == { S \in SUBSET opts : Cardinality(S) <= MaxSel } \cup { opts }

\* a widget interaction ends in a new pass of the script: nothing of the
\* last pass is kept but the cache and the widgets' state
Rerun(newsel) ==
    /\ pc \in { "done", "stopped" }
    /\ "filters" \in out
    /\ newsel # sel
    /\ sel' = newsel
    /\ pc' = "start"
    /\ out' = {}
    /\ df' = None
    /\ filtered_data' = None
    /\ csv_data' = None
    /\ metrics' = None
    /\ top10' = None
    /\ gender' = None
    /\ age' = None
    /\ UNCHANGED <<fileExists, raw, cache, widgets>>

\* lines 80-84
SelectQuarters ==
    /\ "filters" \in out
    /\ \E S \in Choices({ q_all_label } \cup widgets.q_options) \cup { widgets.q_options } :
      Rerun([ sel EXCEPT !.quarters = S ])

\* lines 91-95
SelectTypes ==
    /\ "filters" \in out
    /\ \E S \in Choices(widgets.type_options) : Rerun([ sel EXCEPT !.types = S ])

\* lines 109-113
SelectBiz ==
    /\ "filters" \in out
    /\ \E S \in Choices(widgets.biz_options) : Rerun([ sel EXCEPT !.biz = S ])

Next ==
    \/ CheckFile
    \/ Load
    \/ CheckCols
    \/ Sidebar
    \/ ApplyFilter
    \/ Export
    \/ EmptyCheck
    \/ Tab1
    \/ Tab2
    \/ Footer
    \/ SelectQuarters
    \/ SelectTypes
    \/ SelectBiz

Spec == Init /\ [][Next]_vars

---------------------------------------------------------------------------
(* Properties.  The expected results below are written from the claims,    *)
(* not from the operators of the script.                                   *)

PeriodCol == "gijun_nyeonbungi_kodeu"

TypeCol == "sanggwonyuhyeong"

BizCol == "eopjong"

SalesCol == "bungimaechuraek"

CntCol == "bungigeoraegeonsu"

Filtered == filtered_data # None

TypeKept(d, row, T) == T = {} \/ Cell(d, row, TypeCol) \in T

BizKept(d, row, B) == B = {} \/ Cell(d, row, BizCol) \in B

\* the period predicate as the specification words it: only the sentinel
\* means "all"
PeriodKeptSentinelOnly(d, row, Q) == q_all_label \in Q \/ Cell(d, row, PeriodCol) \in Q

\* the period predicate with the empty selection meaning "all" too
PeriodKept(d, row, Q) == Q = {} \/ PeriodKeptSentinelOnly(d, row, Q)

ExpectedRows(d, s) ==
    SelectIdx(d.rows, { r \in 1..Len(d.rows) :
                          /\ PeriodKept(d, d.rows[r], s.quarters)
                          /\ TypeKept(d, d.rows[r], s.types)
                          /\ BizKept(d, d.rows[r], s.biz) })

Occurrences(rows, row) == Cardinality({ i \in DOMAIN rows : rows[i] = row })

SameMultiset(a, b) ==
    \A row \in Range(a) \cup Range(b) : Occurrences(a, row) = Occurrences(b, row)

ZeroFilled(cells) == [ i \in DOMAIN cells |-> IF cells[i] = NaN THEN 0 ELSE cells[i] ]

PlainSum(cells) ==
    LET F[i \in 0..Len(cells)] == IF i = 0 THEN 0 ELSE F[i - 1] + cells[i]
    IN  F[Len(cells)]

NullAsZeroSum(cells) == PlainSum(ZeroFilled(cells))

CategorySales(f, c) ==
    NullAsZeroSum(SelectIdx(Col(f, SalesCol),
                            { r \in 1..Len(f.rows) : Cell(f, f.rows[r], BizCol) = c }))

\* C1: with the period dimension unfiltered (the sentinel selected), the
\* filtered table holds exactly the rows of the loaded table whose district
\* type is selected (or no type is selected) and whose category is selected
\* (or no category is selected), in their order.
C1_TypeAndCategoryFilter ==
    (Filtered /\ q_all_label \in sel.quarters) =>
        filtered_data.rows =
            SelectIdx(df.rows, { r \in 1..Len(df.rows) :
                                   /\ TypeKept(df, df.rows[r], sel.types)
                                   /\ BizKept(df, df.rows[r], sel.biz) })

\* both selections non-empty, some row kept and some row dropped
C1_Witness ==
    /\ Filtered
    /\ q_all_label \in sel.quarters
    /\ sel.types # {}
    /\ sel.biz # {}
    /\ Len(filtered_data.rows) > 0
    /\ Len(filtered_data.rows) < Len(df.rows)

\* C1 again, for an empty selection of district types next to a non-empty
\* selection of categories
C1_WitnessEmptyTypes ==
    /\ Filtered
    /\ q_all_label \in sel.quarters
    /\ sel.types = {}
    /\ sel.biz # {}
    /\ Len(filtered_data.rows) > 0
    /\ Len(filtered_data.rows) < Len(df.rows)

\* C2 as stated: the period filter is off only when the sentinel is
\* selected; without the sentinel exactly the rows whose period code is
\* selected are kept, so the empty selection keeps no row.
C2_SentinelOnly ==
    Filtered =>
        filtered_data.rows =
            SelectIdx(df.rows, { r \in 1..Len(df.rows) :
                                   /\ PeriodKeptSentinelOnly(df, df.rows[r], sel.quarters)
                                   /\ TypeKept(df, df.rows[r], sel.types)
                                   /\ BizKept(df, df.rows[r], sel.biz) })

\* C2 amended: the period filter is off when the sentinel is selected or
\* when nothing is selected; otherwise exactly the rows whose period code,
\* as text, is selected are kept.
C2_SentinelOrEmpty ==
    Filtered => filtered_data.rows = ExpectedRows(df, sel)

\* nothing selected for the period, and rows are shown
C2_Witness ==
    /\ Filtered
    /\ sel.quarters = {}
    /\ Len(filtered_data.rows) > 0

\* C3: with one dimension's selection equal to all the options offered for
\* it and the other dimensions unfiltered, the filtered table equals the
\* loaded table as a multiset of rows.
C3_FilterTotality ==
    (/\ Filtered
     /\ \/ sel.quarters = widgets.q_options /\ sel.types = {} /\ sel.biz = {}
        \/ q_all_label \in sel.quarters /\ sel.types = widgets.type_options /\ sel.biz = {}
        \/ q_all_label \in sel.quarters /\ sel.types = {} /\ sel.biz = widgets.biz_options)
    => SameMultiset(filtered_data.rows, df.rows)

\* every category offered is selected, and the file has a row whose
\* category cell is empty (loaded as the text "nan")
C3_Witness ==
    /\ Filtered
    /\ q_all_label \in sel.quarters
    /\ sel.types = {}
    /\ sel.biz = widgets.biz_options
    /\ sel.biz # {}
    /\ \E r \in 1..Len(df.rows) : Cell(df, df.rows[r], BizCol) = "nan"
    /\ Len(df.rows) > 1

\* C3 again, for the period dimension
C3_WitnessPeriod ==
    /\ Filtered
    /\ sel.quarters = widgets.q_options
    /\ sel.quarters # {}
    /\ sel.types = {}
    /\ sel.biz = {}
    /\ Len(df.rows) > 1

\* C4: the ranking has min(10, number of distinct categories of the
\* filtered table) entries, each with the null-as-zero sum of its
\* category's sales, the sums never increase, and entry i has rank i.
C4_Top10 ==
    top10 # None =>
        /\ Len(top10.rows) = Min(10, Cardinality(Range(Col(filtered_data, BizCol))))
        /\ \A i \in 1..Len(top10.rows) :
             /\ top10.rows[i].bungimaechuraek = CategorySales(filtered_data, top10.rows[i].eopjong)
             /\ top10.rows[i].sunwi = i
        /\ \A i \in 1..Len(top10.rows) : \A j \in 1..Len(top10.rows) :
             i < j => top10.rows[i].bungimaechuraek >= top10.rows[j].bungimaechuraek

\* more than ten categories, ten ranked, one of them with no amount at all
C4_Witness ==
    /\ top10 # None
    /\ Cardinality(Range(Col(filtered_data, BizCol))) > 10
    /\ Len(top10.rows) = 10
    /\ \E r \in 1..Len(filtered_data.rows) : Cell(filtered_data, filtered_data.rows[r], SalesCol) = NaN

\* C5: the two totals are the sums with every missing cell replaced by 0;
\* they are never missing, and the pass computing them does not fail.
C5_NullSafeTotals ==
    /\ pc \in { "tab2", "footer", "done" } => metrics # None
    /\ metrics # None =>
         /\ metrics.total_sales = NullAsZeroSum(Col(filtered_data, SalesCol))
         /\ metrics.total_cnt = NullAsZeroSum(Col(filtered_data, CntCol))
         /\ metrics.total_sales # NaN
         /\ metrics.total_cnt # NaN

\* totals over a table with a missing amount, a present amount and a
\* missing transaction count
C5_Witness ==
    /\ metrics # None
    /\ \E r \in 1..Len(filtered_data.rows) : Cell(filtered_data, filtered_data.rows[r], SalesCol) = NaN
    /\ \E r \in 1..Len(filtered_data.rows) : Cell(filtered_data, filtered_data.rows[r], SalesCol) > 0
    /\ \E r \in 1..Len(filtered_data.rows) : Cell(filtered_data, filtered_data.rows[r], CntCol) = NaN

ResultTags == { "metrics", "top10_chart", "gender_chart", "gender_info",
                "age_chart", "age_info", "tabs" }

NoResults ==
    /\ metrics = None
    /\ top10 = None
    /\ gender = None
    /\ age = None
    /\ out \cap ResultTags = {}

\* C6: a pass whose filtered table is empty shows a warning, not an error,
\* and stops with no metric, ranking or demographic chart computed or
\* rendered; metrics and charts exist only in passes whose filtered table
\* is non-empty.
C6_EmptyResult ==
    /\ (Filtered /\ Len(filtered_data.rows) = 0) =>
          /\ pc \in { "export", "emptycheck", "stopped" }
          /\ NoResults
          /\ pc = "stopped" => ("warning_empty" \in out /\ out \cap { "error_file", "error_cols", "exception" } = {})
    /\ ~NoResults => (Filtered /\ Len(filtered_data.rows) > 0 /\ "warning_empty" \notin out)

\* the pass has stopped on an empty result of a file that has rows
C6_Witness ==
    /\ pc = "stopped"
    /\ "warning_empty" \in out
    /\ Len(df.rows) > 0

DashboardTags == { "filters", "row_count", "download", "source_note", "warning_empty" } \cup ResultTags

NoDashboard ==
    /\ widgets = None
    /\ sel = None
    /\ filtered_data = None
    /\ csv_data = None
    /\ NoResults
    /\ out \cap DashboardTags = {}

\* a required canonical column is absent from a header row
RequiredAbsent(cols) == \E c \in REQUIRED_COLS : \A j \in DOMAIN cols : cols[j] # c

\* C7: when the file does not exist or a required column is absent after
\* renaming, the pass shows an error and stops, and no widget, filtered
\* table, export, metric or chart is ever produced; the sidebar, the filter
\* and the aggregations are reached only when the file exists and every
\* required column is present.
C7_StructuralErrorsTerminal ==
    /\ ~fileExists =>
          /\ pc \in { "start", "stopped" }
          /\ pc = "stopped" => "error_file" \in out
          /\ NoDashboard
    /\ (df # None /\ RequiredAbsent(df.cols)) =>
          /\ pc \in { "cols", "stopped" }
          /\ pc = "stopped" => "error_cols" \in out
          /\ NoDashboard
    /\ (pc \in { "sidebar", "filter", "export", "emptycheck", "tab1", "tab2", "footer", "done" }
          \/ ~NoDashboard) =>
          /\ fileExists
          /\ cache # None
          /\ ~RequiredAbsent(cache.cols)

\* the pass has stopped on a file that lacks a required column
C7_Witness ==
    /\ pc = "stopped"
    /\ "error_cols" \in out
    /\ Len(df.rows) > 0

\* C7 again, for the file that does not exist
C7_WitnessNoFile ==
    /\ pc = "stopped"
    /\ "error_file" \in out

\* the table the first load produced, written from the file alone
Loaded == load_data(raw)

\* C8: whatever selections came before, the cached table is the table of
\* the first load, and the filtered table, the metrics and the ranking are
\* those of that table under the current selection alone.
C8_HistoryIndependence ==
    /\ cache = None => (df = None /\ ~Filtered /\ metrics = None /\ top10 = None)
    /\ cache # None =>
         /\ cache = Loaded
         /\ df # None => df = cache
         /\ Filtered =>
              /\ filtered_data.cols = cache.cols
              /\ filtered_data.rows = ExpectedRows(cache, sel)
         /\ metrics # None =>
              LET f == [ cols |-> cache.cols, rows |-> ExpectedRows(cache, sel) ]
              IN  /\ metrics.total_sales = NullAsZeroSum(Col(f, SalesCol))
                  /\ metrics.total_cnt = NullAsZeroSum(Col(f, CntCol))
                  /\ metrics.n_areas = Cardinality(Range(Col(f, "sanggwonireum")))
                  /\ metrics.n_cats = Cardinality(Range(Col(f, BizCol)))
                  /\ top10 # None =>
                       \A i \in 1..Len(top10.rows) :
                          top10.rows[i].bungimaechuraek = CategorySales(f, top10.rows[i].eopjong)

\* a finished pass in which all three selections differ from their
\* defaults (at least three interactions), over a file with several rows
C8_Witness ==
    /\ pc = "done"
    /\ sel.quarters = {}
    /\ sel.types = {}
    /\ sel.biz = {}
    /\ Len(filtered_data.rows) > 1

RawNumeral(t) == t # "" /\ \A i \in 1..Len(t) : SubSeq(t, i, i) \in Range(Digits)

\* C9: for every parseable file, load_data returns a table with the same
\* rows in the same order, every mapped header renamed and every other
\* header unchanged, and every cell of a numeric column that is no number
\* missing; it does not fail.
C9_NormalizationTotal ==
    (fileExists /\ pc \notin { "start", "load" }) =>
        /\ pc # "crashed"
        /\ df # None
        /\ Len(df.rows) = Len(raw.rows)
        /\ Len(df.cols) = Len(raw.cols)
        /\ \A j \in 1..Len(raw.cols) :
             /\ raw.cols[j] \in DOMAIN RENAME_MAP => df.cols[j] = RENAME_MAP[raw.cols[j]]
             /\ raw.cols[j] \notin DOMAIN RENAME_MAP => df.cols[j] = raw.cols[j]
             /\ \A r \in 1..Len(raw.rows) :
                  /\ df.cols[j] \in Range(num_cols) =>
                        (df.rows[r][j] = NaN <=> ~RawNumeral(raw.rows[r][j]))
                  /\ df.cols[j] \notin Range(num_cols) \cup Range(str_cols) =>
                        df.rows[r][j] = raw.rows[r][j]

\* the share of a sum in a total is a number between 0 and 1
ShareDefined(x, total) ==
    /\ x.biyul.den # 0
    /\ x.biyul.num = x.maechuraek
    /\ x.biyul.den = total
    /\ 0 <= x.biyul.num
    /\ x.biyul.num <= x.biyul.den

\* C10: in every pass that reaches the demographic tab with both gender
\* columns present, each share is the null-as-zero sum divided by the
\* combined total, lies in [0, 1], the two add up to 1 and no division by a
\* zero total occurs; with a gender column absent the shares are not
\* computed and a notice is shown instead.
C10_GenderShare ==
    pc \in { "footer", "done" } =>
        IF HasCol(filtered_data, MALE_COL) /\ HasCol(filtered_data, FEMALE_COL)
        THEN LET ms == NullAsZeroSum(Col(filtered_data, MALE_COL))
                 fs == NullAsZeroSum(Col(filtered_data, FEMALE_COL))
             IN  /\ gender # None
                 /\ gender.namseong.maechuraek = ms
                 /\ gender.yeoseong.maechuraek = fs
                 /\ ShareDefined(gender.namseong, ms + fs)
                 /\ ShareDefined(gender.yeoseong, ms + fs)
                 /\ gender.namseong.biyul.num + gender.yeoseong.biyul.num = ms + fs
        ELSE /\ gender = None
             /\ "gender_info" \in out
             /\ "gender_chart" \notin out

===========================================================================
